---- MODULE Spec2Model ----
(***************************************************************************)
(* chcc: a profile store (config.go, type Config) kept in ~/.chcc.yaml,    *)
(* the commands of main.go that load, mutate and save it, and the          *)
(* propagation of the default profile into the environment.                *)
(*                                                                         *)
(* Three specifications share the definitions of the methods:              *)
(*   Spec      one step = one run of a chcc command (a fresh process);     *)
(*   SpecStore one step = one call of a method of Config on a store held   *)
(*             in memory;                                                  *)
(*   SpecEnv   one step = one call of Config.SetEnvironmentVariables in    *)
(*             one process.                                                *)
(***************************************************************************)
EXTENDS Integers, Sequences, FiniteSets, TLC

(* Profile names, URLs and tokens are Go strings that the code only copies *)
(* and compares.  The empty name is an input: cobra's MarkFlagRequired     *)
(* asks for the flag to be given, not for a non-empty value.               *)
Names == {"", "A", "B"}
URLs == {"u1", "u2"}
Tokens == {"t1", "t2"}

(* The credentials the commands are run with: two that differ in both      *)
(* fields.                                                                 *)
Creds == {<<"u1", "t1">>, <<"u2", "t2">>}

(* At most MaxCmdBlocks export blocks are appended to one startup file by  *)
(* the commands of Spec, at most MaxEnvBlocks by the calls of SpecEnv.     *)
MaxCmdBlocks == 1

MaxEnvBlocks == 2

(* ------------------------------------------------------------------------ *)
(* The store: type APISite and type Config                                  *)
(* ------------------------------------------------------------------------ *)
APISite(name, baseURL, token) ==
  [Name |-> name, BaseURL |-> baseURL, Token |-> token]

EmptyConfig == [APISites |-> << >>, DefaultAPISite |-> ""]

(* "for i, site := range sites { if site.Name == name": the first index    *)
(* whose name matches, 0 when the loop falls through.                      *)
RECURSIVE RangeFind(_, _, _)
RangeFind(sites, name, i) ==
  IF i > Len(sites) THEN 0
  ELSE IF sites[i].Name = name THEN i
  ELSE RangeFind(sites, name, i + 1)

(* A *APISite result: << >> is nil, <<site>> a pointer to a copy of site.  *)
GetAPISiteByName(c, name) ==
  LET i == RangeFind(c.APISites, name, 1)
  IN IF i > 0 THEN <<c.APISites[i]>> ELSE << >>

(* Variant: the loop over the names is left out.                           *)
GetDefaultAPISiteFirst(c) ==
  IF Len(c.APISites) > 0 THEN <<c.APISites[1]>> ELSE << >>

GetDefaultAPISite(c) ==
  LET i == RangeFind(c.APISites, c.DefaultAPISite, 1)
  IN IF i > 0 THEN <<c.APISites[i]>>
     ELSE IF Len(c.APISites) > 0 THEN <<c.APISites[1]>>
     ELSE << >>

(* Variant: the loop over the names is left out, the site is appended.     *)
AddOrUpdateAPISiteAppend(c, name, baseURL, token) ==
  [c EXCEPT !.APISites = Append(@, APISite(name, baseURL, token))]

AddOrUpdateAPISite(c, name, baseURL, token) ==
  LET i == RangeFind(c.APISites, name, 1)
  IN IF i > 0
     THEN [c EXCEPT !.APISites[i].BaseURL = baseURL, !.APISites[i].Token = token]
     ELSE [c EXCEPT !.APISites = Append(@, APISite(name, baseURL, token))]

(* Variant: the name is not looked up.                                     *)
SetDefaultAPISiteUnchecked(c, name) ==
  [ok |-> TRUE, cfg |-> [c EXCEPT !.DefaultAPISite = name]]

(* The bool result and the store after the call.                           *)
SetDefaultAPISite(c, name) ==
  LET i == RangeFind(c.APISites, name, 1)
  IN IF i > 0
     THEN [ok |-> TRUE, cfg |-> [c EXCEPT !.DefaultAPISite = name]]
     ELSE [ok |-> FALSE, cfg |-> c]

(* Variant: the default is not looked at when a site is removed.           *)
RemoveAPISiteKeepDefault(c, name) ==
  LET i == RangeFind(c.APISites, name, 1)
      rest == SubSeq(c.APISites, 1, i - 1) \o SubSeq(c.APISites, i + 1, Len(c.APISites))
  IN IF i > 0
     THEN [ok |-> TRUE, cfg |-> [c EXCEPT !.APISites = rest]]
     ELSE [ok |-> FALSE, cfg |-> c]

(* Variant: a removed default is cleared and not given to the first site.  *)
RemoveAPISiteClearDefault(c, name) ==
  LET i == RangeFind(c.APISites, name, 1)
      rest == SubSeq(c.APISites, 1, i - 1) \o SubSeq(c.APISites, i + 1, Len(c.APISites))
      dflt == IF c.DefaultAPISite = name THEN "" ELSE c.DefaultAPISite
  IN IF i > 0
     THEN [ok |-> TRUE, cfg |-> [APISites |-> rest, DefaultAPISite |-> dflt]]
     ELSE [ok |-> FALSE, cfg |-> c]

RemoveAPISite(c, name) ==
  LET i == RangeFind(c.APISites, name, 1)
      rest == SubSeq(c.APISites, 1, i - 1) \o SubSeq(c.APISites, i + 1, Len(c.APISites))
      dflt == IF c.DefaultAPISite = name
              THEN (IF Len(rest) > 0 THEN rest[1].Name ELSE "")
              ELSE c.DefaultAPISite
  IN IF i > 0
     THEN [ok |-> TRUE, cfg |-> [APISites |-> rest, DefaultAPISite |-> dflt]]
     ELSE [ok |-> FALSE, cfg |-> c]

(* ------------------------------------------------------------------------ *)
(* The configuration file: yaml.Marshal / yaml.Unmarshal of Config          *)
(* ------------------------------------------------------------------------ *)
(* The document has the keys of the struct tags.                           *)
Marshal(c) ==
  [api_sites |-> [i \in 1..Len(c.APISites) |->
                    [name |-> c.APISites[i].Name,
                     base_url |-> c.APISites[i].BaseURL,
                     token |-> c.APISites[i].Token]],
   default_api_site |-> c.DefaultAPISite]

Unmarshal(d) ==
  [APISites |-> [i \in 1..Len(d.api_sites) |->
                   APISite(d.api_sites[i].name, d.api_sites[i].base_url,
                           d.api_sites[i].token)],
   DefaultAPISite |-> d.default_api_site]

(* loadConfig of main.go: a missing file is an empty store; a file that     *)
(* cannot be read or parsed ends the process (log.Fatalf).  file is << >>  *)
(* when ~/.chcc.yaml is missing and <<document>> when it is there.         *)
loadConfig(f, io) ==
  IF f = << >> THEN [ok |-> TRUE, cfg |-> EmptyConfig]
  ELSE IF io.fault = "load" THEN [ok |-> FALSE, cfg |-> EmptyConfig]
  ELSE [ok |-> TRUE, cfg |-> Unmarshal(f[1])]

(* ------------------------------------------------------------------------ *)
(* Environment propagation                                                  *)
(* ------------------------------------------------------------------------ *)
(* The machine outside the store: sys.env is the environment of the        *)
(* running process (the two ANTHROPIC_ variables, "" when unset),          *)
(* sys.winenv the user-level variables setx writes, sys.rc the startup     *)
(* files.  A file is [exists, lines]; a line is <<text, value>>.           *)
RcOrder == <<".bashrc", ".zshrc">>

RcFiles == {RcOrder[k] : k \in 1..Len(RcOrder)}

OrigLine == <<"original content", "">>

Unset == [url |-> "", tok |-> ""]

ExportLines(baseURL, authToken) ==
  << <<"", "">>,
     <<"# CHCC API Configuration", "">>,
     <<"export ANTHROPIC_BASE_URL=", baseURL>>,
     <<"export ANTHROPIC_AUTH_TOKEN=", authToken>> >>

(* What the operating system answers during one propagation: home is       *)
(* os.UserHomeDir succeeding, setx1 and setx2 the two setx runs            *)
(* succeeding, rcio[f] is "ok", or "open" when os.OpenFile fails, or       *)
(* "write" when f.WriteString fails (taken to write nothing).              *)
RcIOs == [RcFiles -> {"ok", "open", "write"}]

AllOk == [f \in RcFiles |-> "ok"]

setWindowsEnvVars(baseURL, authToken, io, sys) ==
  [err |-> "nil",
   sys |-> [sys EXCEPT !.env = [url |-> baseURL, tok |-> authToken],
                       !.winenv = [url |-> IF io.setx1 THEN baseURL ELSE @.url,
                                   tok |-> IF io.setx2 THEN authToken ELSE @.tok]]]

(* Variant: a file that cannot be opened ends the loop ("break").          *)
RECURSIVE RcLoopBreak(_, _, _, _)
RcLoopBreak(rc, exportLines, rcio, k) ==
  IF k > Len(RcOrder) THEN rc
  ELSE LET f == RcOrder[k]
       IN IF rc[f].exists /\ rcio[f] = "open" THEN rc
          ELSE RcLoopBreak(IF rc[f].exists /\ rcio[f] = "ok"
                           THEN [rc EXCEPT ![f].lines = @ \o exportLines]
                           ELSE rc,
                           exportLines, rcio, k + 1)

(* Variant: the file is opened with O_TRUNC where the code has O_APPEND.   *)
RECURSIVE RcLoopTruncate(_, _, _, _)
RcLoopTruncate(rc, exportLines, rcio, k) ==
  IF k > Len(RcOrder) THEN rc
  ELSE LET f == RcOrder[k]
       IN RcLoopTruncate(IF rc[f].exists /\ rcio[f] = "ok"
                         THEN [rc EXCEPT ![f].lines = exportLines]
                         ELSE rc,
                         exportLines, rcio, k + 1)

(* "for _, rcFile := range []string{bashrcPath, zshrcPath}", from the k-th *)
(* file on: a file that is missing or cannot be opened is skipped, and the *)
(* result of WriteString is not looked at.                                 *)
RECURSIVE RcLoop(_, _, _, _)
RcLoop(rc, exportLines, rcio, k) ==
  IF k > Len(RcOrder) THEN rc
  ELSE LET f == RcOrder[k]
           after == IF rc[f].exists /\ rcio[f] = "ok"
                    THEN [rc EXCEPT ![f].lines = @ \o exportLines]
                    ELSE rc
       IN RcLoop(after, exportLines, rcio, k + 1)

setUnixEnvVars(baseURL, authToken, io, sys) ==
  LET set == [sys EXCEPT !.env = [url |-> baseURL, tok |-> authToken]]
  IN IF ~io.home
     THEN [err |-> "home", sys |-> set]
     ELSE [err |-> "nil",
           sys |-> [set EXCEPT !.rc = RcLoop(@, ExportLines(baseURL, authToken),
                                             io.rcio, 1)]]

SetEnvironmentVariables(c, siteName, goos, io, sys) ==
  LET site == GetAPISiteByName(c, siteName)
  IN IF site = << >> THEN [err |-> "notfound", sys |-> sys]
     ELSE IF goos = "windows"
     THEN setWindowsEnvVars(site[1].BaseURL, site[1].Token, io, sys)
     ELSE setUnixEnvVars(site[1].BaseURL, site[1].Token, io, sys)

(* The platforms main.go names in its "switch runtime.GOOS"; Platforms has *)
(* one it does not name.  The code itself asks only whether GOOS is        *)
(* "windows".                                                              *)
Supported == {"windows", "linux", "darwin"}

Platforms == {"windows", "linux", "freebsd"}

(* ------------------------------------------------------------------------ *)
(* The commands of main.go                                                  *)
(* ------------------------------------------------------------------------ *)
(* One run of a command is one process: it starts with the two variables   *)
(* unset, and what it leaves behind is the configuration file, the         *)
(* user-level variables and the startup files.  io.fault is the first call *)
(* that ends the run with log.Fatalf: "home" (getConfigFilePath), "load"   *)
(* (LoadConfig), "save" (SaveConfig, the file left as it was), or "none".  *)
(* A run yields [file, res, prop, sys]: res is "ok", "notfound" or          *)
(* "fatal"; prop is "none" when SetEnvironmentVariables was not called,    *)
(* else "ok" or "err" after its result.                                    *)
Fatal(f, sys) == [file |-> f, res |-> "fatal", prop |-> "none", sys |-> sys]

listAPISites(f, io, sys) ==
  IF io.fault = "home" \/ ~loadConfig(f, io).ok THEN Fatal(f, sys)
  ELSE [file |-> f, res |-> "ok", prop |-> "none", sys |-> sys]

addAPISite(f, name, url, token, io, sys) ==
  LET ld == loadConfig(f, io)
      added == AddOrUpdateAPISite(ld.cfg, name, url, token)
      config == IF added.DefaultAPISite = ""
                THEN [added EXCEPT !.DefaultAPISite = name]
                ELSE added
  IN IF io.fault = "home" \/ ~ld.ok \/ io.fault = "save" THEN Fatal(f, sys)
     ELSE [file |-> <<Marshal(config)>>, res |-> "ok", prop |-> "none", sys |-> sys]

setDefaultAPISite(f, name, goos, io, sys) ==
  LET ld == loadConfig(f, io)
      r == SetDefaultAPISite(ld.cfg, name)
      p == SetEnvironmentVariables(r.cfg, name, goos, io, sys)
  IN IF io.fault = "home" \/ ~ld.ok THEN Fatal(f, sys)
     ELSE IF ~r.ok THEN [file |-> f, res |-> "notfound", prop |-> "none", sys |-> sys]
     ELSE IF io.fault = "save" THEN Fatal(f, sys)
     ELSE [file |-> <<Marshal(r.cfg)>>, res |-> "ok",
           prop |-> IF p.err = "nil" THEN "ok" ELSE "err", sys |-> p.sys]

(* Variant: the variables are set again only when the default has changed. *)
removeAPISiteOnChange(f, name, goos, io, sys) ==
  LET ld == loadConfig(f, io)
      r == RemoveAPISite(ld.cfg, name)
      p == SetEnvironmentVariables(r.cfg, r.cfg.DefaultAPISite, goos, io, sys)
  IN IF io.fault = "home" \/ ~ld.ok THEN Fatal(f, sys)
     ELSE IF ~r.ok THEN [file |-> f, res |-> "notfound", prop |-> "none", sys |-> sys]
     ELSE IF io.fault = "save" THEN Fatal(f, sys)
     ELSE IF r.cfg.DefaultAPISite # "" /\ r.cfg.DefaultAPISite # ld.cfg.DefaultAPISite
     THEN [file |-> <<Marshal(r.cfg)>>, res |-> "ok",
           prop |-> IF p.err = "nil" THEN "ok" ELSE "err", sys |-> p.sys]
     ELSE [file |-> <<Marshal(r.cfg)>>, res |-> "ok", prop |-> "none", sys |-> sys]

removeAPISite(f, name, goos, io, sys) ==
  LET ld == loadConfig(f, io)
      r == RemoveAPISite(ld.cfg, name)
      p == SetEnvironmentVariables(r.cfg, r.cfg.DefaultAPISite, goos, io, sys)
  IN IF io.fault = "home" \/ ~ld.ok THEN Fatal(f, sys)
     ELSE IF ~r.ok THEN [file |-> f, res |-> "notfound", prop |-> "none", sys |-> sys]
     ELSE IF io.fault = "save" THEN Fatal(f, sys)
     ELSE IF Len(r.cfg.APISites) > 0 /\ r.cfg.DefaultAPISite # ""
     THEN [file |-> <<Marshal(r.cfg)>>, res |-> "ok",
           prop |-> IF p.err = "nil" THEN "ok" ELSE "err", sys |-> p.sys]
     ELSE [file |-> <<Marshal(r.cfg)>>, res |-> "ok", prop |-> "none", sys |-> sys]

(* ------------------------------------------------------------------------ *)
(* State                                                                    *)
(* ------------------------------------------------------------------------ *)
VARIABLES
  GOOS,    \* runtime.GOOS
  file,    \* ~/.chcc.yaml: << >> or <<document>>
  cfg,     \* the *Config held in memory (SpecStore, SpecEnv)
  env,     \* ANTHROPIC_BASE_URL / ANTHROPIC_AUTH_TOKEN of the process
  winenv,  \* the user-level variables written by setx
  rc,      \* ~/.bashrc and ~/.zshrc
  last,    \* the last command run: [cmd, known, res, prop]
  call     \* the last method call: [op, name, baseURL, token, ret, pre, io]

vars == <<GOOS, file, cfg, env, winenv, rc, last, call>>

Sys == [env |-> env, winenv |-> winenv, rc |-> rc]

(* The inputs of one propagation on platform goos: setx runs on Windows    *)
(* only, the home directory and the startup files are used elsewhere only, *)
(* the files only once the home directory is found.                        *)
NoFailure == [fault |-> "none", home |-> TRUE, setx1 |-> TRUE, setx2 |-> TRUE, rcio |-> AllOk]

PropIOs(goos) ==
  IF goos = "windows"
  THEN [fault : {"none"}, home : {TRUE}, setx1 : BOOLEAN, setx2 : BOOLEAN, rcio : {AllOk}]
  ELSE [fault : {"none"}, home : {TRUE}, setx1 : {TRUE}, setx2 : {TRUE}, rcio : RcIOs]
       \cup {[NoFailure EXCEPT !.home = FALSE]}

(* The inputs of a run that ends with log.Fatalf, and of one that does not *)
(* propagate.                                                              *)
Faults == {[NoFailure EXCEPT !.fault = x] : x \in {"home", "load", "save"}}

PlainIOs == Faults \cup {NoFailure}

(* The inputs of a run.  Once getConfigFilePath has found the home         *)
(* directory, setUnixEnvVars finds it as well.                             *)
CmdIOs(goos) == Faults \cup {io \in PropIOs(goos) : io.home}

Blocks(f) == (Len(f.lines) - 1) \div Len(ExportLines("", ""))

Bounded(sys, max) == \A f \in RcFiles : sys.rc[f].exists => Blocks(sys.rc[f]) <= max

NoCall ==
  [op |-> "none", name |-> "", baseURL |-> "", token |-> "", ret |-> <<"">>,
   pre |-> EmptyConfig, io |-> NoFailure]

Init ==
  /\ GOOS \in {"windows", "linux"}
  /\ file = << >>
  /\ cfg = EmptyConfig
  /\ env = Unset
  /\ winenv = Unset
  /\ rc \in [RcFiles -> {[exists |-> FALSE, lines |-> << >>],
                         [exists |-> TRUE, lines |-> <<OrigLine>>]}]
  /\ GOOS = "windows" => \A f \in RcFiles : ~rc[f].exists
  /\ last = [cmd |-> "none", known |-> FALSE, res |-> "ok", prop |-> "none"]
  /\ call = NoCall

(* A run r of command cmd; known tells whether the run met no failure and  *)
(* its name argument was the name of a profile of the store it loaded.     *)
Ran(cmd, known, r) ==
  /\ Bounded(r.sys, MaxCmdBlocks)
  /\ file' = r.file
  /\ env' = r.sys.env
  /\ winenv' = r.sys.winenv
  /\ rc' = r.sys.rc
  /\ last' = [cmd |-> cmd, known |-> known, res |-> r.res, prop |-> r.prop]
  /\ UNCHANGED <<GOOS, cfg, call>>

Fresh == [Sys EXCEPT !.env = Unset]

NamesOf(c) == {c.APISites[i].Name : i \in 1..Len(c.APISites)}

(* The store the configuration file holds.                                 *)
Stored == IF file = << >> THEN EmptyConfig ELSE Unmarshal(file[1])

Known(name, io) == io.fault = "none" /\ name \in NamesOf(Stored)

CmdList ==
  \E io \in PlainIOs :
    \E r \in {listAPISites(file, io, Fresh)} : Ran("list", FALSE, r)

CmdAdd ==
  \E name \in Names, cred \in Creds, io \in PlainIOs :
    \E r \in {addAPISite(file, name, cred[1], cred[2], io, Fresh)} : Ran("add", Known(name, io), r)

CmdSetDefault ==
  \E name \in Names, io \in CmdIOs(GOOS) :
    \E r \in {setDefaultAPISite(file, name, GOOS, io, Fresh)} : Ran("set-default", Known(name, io), r)

CmdRemove ==
  \E name \in Names, io \in CmdIOs(GOOS) :
    \E r \in {removeAPISite(file, name, GOOS, io, Fresh)} : Ran("remove", Known(name, io), r)

Next == CmdList \/ CmdAdd \/ CmdSetDefault \/ CmdRemove

Spec == Init /\ [][Next]_vars

(* ------------------------------------------------------------------------ *)
(* SpecStore: the methods of Config, called in any order on one store       *)
(* ------------------------------------------------------------------------ *)
Called(op, name, baseURL, token, ret, after) ==
  /\ cfg' = after
  /\ call' = [op |-> op, name |-> name, baseURL |-> baseURL, token |-> token,
              ret |-> ret, pre |-> cfg, io |-> NoFailure]
  /\ UNCHANGED <<GOOS, file, env, winenv, rc, last>>

(* A pointer result as a string: "nil", or the fields of the site.         *)
Shown(site) == IF site = << >> THEN <<"nil">> ELSE <<site[1].Name, site[1].BaseURL, site[1].Token>>

CallAddOrUpdate ==
  \E name \in Names, baseURL \in URLs, token \in Tokens :
    Called("AddOrUpdateAPISite", name, baseURL, token, <<"">>,
           AddOrUpdateAPISite(cfg, name, baseURL, token))

CallSetDefault ==
  \E name \in Names :
    \E r \in {SetDefaultAPISite(cfg, name)} :
      Called("SetDefaultAPISite", name, "", "", <<IF r.ok THEN "true" ELSE "false">>, r.cfg)

CallRemove ==
  \E name \in Names :
    \E r \in {RemoveAPISite(cfg, name)} :
      Called("RemoveAPISite", name, "", "", <<IF r.ok THEN "true" ELSE "false">>, r.cfg)

CallGetDefault ==
  Called("GetDefaultAPISite", "", "", "", Shown(GetDefaultAPISite(cfg)), cfg)

CallGetByName ==
  \E name \in Names :
    Called("GetAPISiteByName", name, "", "", Shown(GetAPISiteByName(cfg, name)), cfg)

NextStore ==
  CallAddOrUpdate \/ CallSetDefault \/ CallRemove \/ CallGetDefault \/ CallGetByName

SpecStore == Init /\ [][NextStore]_vars

(* ------------------------------------------------------------------------ *)
(* SpecEnv: SetEnvironmentVariables, called repeatedly in one process on a  *)
(* store loaded before                                                      *)
(* ------------------------------------------------------------------------ *)
(* The stores of two profiles with different credentials, the first one   *)
(* the default; one name of Names is the name of no profile.               *)
EnvConfigs ==
  {[APISites |-> <<APISite(n[1], p[1][1], p[1][2]), APISite(n[2], p[2][1], p[2][2])>>,
    DefaultAPISite |-> n[1]] :
     n \in {m \in Names \X Names : m[1] # m[2]},
     p \in {q \in Creds \X Creds : q[1] # q[2]}}

InitEnv ==
  /\ GOOS \in Platforms
  /\ file = << >>
  /\ cfg \in EnvConfigs
  /\ env = Unset
  /\ winenv = Unset
  /\ rc \in [RcFiles -> {[exists |-> FALSE, lines |-> << >>],
                         [exists |-> TRUE, lines |-> <<OrigLine>>]}]
  /\ GOOS = "windows" => \A f \in RcFiles : ~rc[f].exists
  /\ last = [cmd |-> "none", known |-> FALSE, res |-> "ok", prop |-> "none"]
  /\ call = NoCall

Propagated(siteName, io, r) ==
  /\ Bounded(r.sys, MaxEnvBlocks)
  /\ env' = r.sys.env
  /\ winenv' = r.sys.winenv
  /\ rc' = r.sys.rc
  /\ call' = [op |-> "SetEnvironmentVariables", name |-> siteName, baseURL |-> "",
              token |-> "", ret |-> <<r.err>>, pre |-> cfg, io |-> io]
  /\ UNCHANGED <<GOOS, file, cfg, last>>

CallSetEnvironmentVariables(siteName, io) ==
  \E r \in {SetEnvironmentVariables(cfg, siteName, GOOS, io, Sys)} :
    Propagated(siteName, io, r)

NextEnv ==
  \E siteName \in Names, io \in PropIOs(GOOS) : CallSetEnvironmentVariables(siteName, io)

SpecEnv == InitEnv /\ [][NextEnv]_vars

(* ------------------------------------------------------------------------ *)
(* Properties                                                               *)
(* ------------------------------------------------------------------------ *)
(* The profile of store c named name, as a pointer result.                  *)
Profile(c, name) ==
  IF name \in NamesOf(c)
  THEN <<CHOOSE s \in {c.APISites[i] : i \in 1..Len(c.APISites)} : s.Name = name>>
  ELSE << >>

IsPrefix(s, t) == Len(s) <= Len(t) /\ SubSeq(t, 1, Len(s)) = s

NamesDistinct(c) ==
  \A i, j \in 1..Len(c.APISites) : c.APISites[i].Name = c.APISites[j].Name => i = j

(* C1: in every state reached from an empty store by add, set-default and  *)
(* remove commands, default_name is empty or the name of a profile of the  *)
(* store.                                                                   *)
C1_DefaultNamesProfile ==
  Stored.DefaultAPISite = "" \/ Stored.DefaultAPISite \in NamesOf(Stored)

(* A remove command has succeeded and left a default among the profiles.   *)
C1_Witness ==
  /\ last.cmd = "remove" /\ last.res = "ok"
  /\ Stored.DefaultAPISite # "" /\ Len(Stored.APISites) = 2

(* C2: AddOrUpdate(name, url, token) never creates a duplicate name.  If   *)
(* a profile named name exists, the number of profiles and the order of    *)
(* the names are unchanged, that profile gets url and token and every      *)
(* other profile is unchanged; otherwise one profile is appended at the    *)
(* end.  GetByName(name) then returns (name, url, token), and the names    *)
(* are pairwise distinct in every reachable state.                         *)
C2_AddOrUpdate ==
  /\ NamesDistinct(cfg)
  /\ call.op = "AddOrUpdateAPISite" =>
       LET pre == call.pre.APISites
           post == cfg.APISites
           new == APISite(call.name, call.baseURL, call.token)
       IN /\ IF call.name \in NamesOf(call.pre)
             THEN /\ Len(post) = Len(pre)
                  /\ \A i \in 1..Len(pre) :
                       /\ post[i].Name = pre[i].Name
                       /\ pre[i].Name = call.name => post[i] = new
                       /\ pre[i].Name # call.name => post[i] = pre[i]
             ELSE post = Append(pre, new)
          /\ GetAPISiteByName(cfg, call.name) = <<new>>

(* The first of three profiles has been given another URL and token.       *)
C2_Witness ==
  /\ call.op = "AddOrUpdateAPISite"
  /\ Len(call.pre.APISites) = 3
  /\ call.pre.APISites[1].Name = call.name
  /\ call.pre.APISites[1].BaseURL # call.baseURL
  /\ call.pre.APISites[1].Token # call.token
  /\ Len(cfg.APISites) = 3

(* C4: Remove(name) of an existing profile deletes exactly that profile    *)
(* and keeps the order of the others; if name was the default, the default *)
(* becomes the first remaining profile, or empty when none remains; else   *)
(* the default is unchanged.                                               *)
C4_Remove ==
  (call.op = "RemoveAPISite" /\ call.name \in NamesOf(call.pre)) =>
    LET Other(s) == s.Name # call.name
    IN /\ call.ret = <<"true">>
       /\ cfg.APISites = SelectSeq(call.pre.APISites, Other)
       /\ Len(cfg.APISites) = Len(call.pre.APISites) - 1
       /\ cfg.DefaultAPISite =
            IF call.pre.DefaultAPISite # call.name THEN call.pre.DefaultAPISite
            ELSE IF cfg.APISites = << >> THEN ""
            ELSE cfg.APISites[1].Name

(* The default, the second of three profiles, has been removed.            *)
C4_Witness ==
  /\ call.op = "RemoveAPISite"
  /\ Len(call.pre.APISites) = 3
  /\ call.pre.APISites[2].Name = call.name
  /\ call.pre.DefaultAPISite = call.name
  /\ cfg.DefaultAPISite = call.pre.APISites[1].Name
  /\ cfg.APISites = <<call.pre.APISites[1], call.pre.APISites[3]>>

(* C6: GetDefault returns the profile named default_name when there is     *)
(* one, else the first profile when there is one, else none, and it does   *)
(* not modify the store.                                                   *)
DefaultOf(c) ==
  IF c.DefaultAPISite \in NamesOf(c) THEN Profile(c, c.DefaultAPISite)
  ELSE IF c.APISites # << >> THEN <<Head(c.APISites)>>
  ELSE << >>

C6_GetDefault ==
  /\ GetDefaultAPISite(cfg) = DefaultOf(cfg)
  /\ call.op = "GetDefaultAPISite" =>
       cfg = call.pre /\ call.ret = Shown(DefaultOf(call.pre))

(* GetDefault has returned a default that is not the first profile.        *)
C6_Witness ==
  /\ call.op = "GetDefaultAPISite"
  /\ Len(cfg.APISites) >= 2
  /\ cfg.DefaultAPISite # ""
  /\ cfg.DefaultAPISite = cfg.APISites[2].Name
  /\ call.ret = Shown(<<cfg.APISites[2]>>)

(* GetDefault has fallen back to the first profile.                        *)
C6_WitnessFallback ==
  /\ call.op = "GetDefaultAPISite"
  /\ cfg.DefaultAPISite \notin NamesOf(cfg)
  /\ Len(cfg.APISites) >= 2
  /\ call.ret = Shown(<<cfg.APISites[1]>>)

(* C3: the first profile added to an empty store becomes the default, and  *)
(* an add on a store that already holds a profile leaves default_name as   *)
(* it was.                                                                  *)
C3_AddKeepsDefault ==
  [][(last'.cmd = "add" /\ last'.res = "ok") =>
       IF Stored.APISites = << >>
       THEN Stored'.DefaultAPISite = Stored'.APISites[1].Name
       ELSE Stored'.DefaultAPISite = Stored.DefaultAPISite]_vars

(* C5: SetDefault and Remove with a name that matches no profile report    *)
(* failure and leave the store unchanged; the set-default and remove       *)
(* commands then neither rewrite the configuration file nor run            *)
(* environment propagation.                                                *)
C5_UnknownName ==
  [][(last'.cmd \in {"set-default", "remove"} /\ ~last'.known /\ last'.res # "fatal") =>
       /\ last'.res = "notfound"
       /\ last'.prop = "none"
       /\ file' = file
       /\ env' = Unset /\ winenv' = winenv /\ rc' = rc]_vars

(* A set-default command has not found its name among the profiles.        *)
C5_Witness ==
  /\ last.cmd = "set-default" /\ last.res = "notfound" /\ ~last.known
  /\ Len(Stored.APISites) >= 1
  /\ Stored.DefaultAPISite # ""

(* C10: set-default and remove propagate after the store is saved: when    *)
(* either command succeeds and leaves a non-empty default, the variables   *)
(* of the process are the base_url and token of the default profile of the *)
(* saved store; a run that could not save has propagated nothing.          *)
C10_DefaultPropagated ==
  /\ (last.cmd \in {"set-default", "remove"} /\ last.res = "ok"
        /\ Stored.DefaultAPISite # "") =>
       /\ last.prop = "ok"
       /\ Profile(Stored, Stored.DefaultAPISite) # << >>
       /\ env = [url |-> Profile(Stored, Stored.DefaultAPISite)[1].BaseURL,
                 tok |-> Profile(Stored, Stored.DefaultAPISite)[1].Token]
  /\ last.prop # "none" => last.res = "ok"
  /\ last.res = "fatal" => env = Unset

(* A remove command has left the second added profile as the default of    *)
(* two profiles and has propagated it.                                     *)
C10_Witness ==
  /\ last.cmd = "remove" /\ last.res = "ok" /\ last.prop = "ok"
  /\ Len(Stored.APISites) = 2
  /\ Stored.DefaultAPISite = Stored.APISites[2].Name
  /\ env.url = Stored.APISites[2].BaseURL
  /\ env.url # Stored.APISites[1].BaseURL

(* C7: on a platform that is neither Windows nor a supported Unix,         *)
(* environment propagation reports failure.                                *)
C7_UnsupportedFails ==
  (call.op = "SetEnvironmentVariables" /\ GOOS \notin Supported) => call.ret # <<"nil">>

(* C8: propagation for a profile first sets the two variables of the       *)
(* process to the profile's base_url and token; a failing setx, or a       *)
(* startup file that cannot be opened or written, still yields success and *)
(* the other variable or file is still attempted; the one persistence      *)
(* failure that returns an error is a home directory that cannot be        *)
(* determined on Unix.                                                     *)
C8_BestEffort ==
  [][(call'.op = "SetEnvironmentVariables" /\ call'.name \in NamesOf(cfg)) =>
       LET site == Profile(cfg, call'.name)[1]
           io == call'.io
           block == ExportLines(site.BaseURL, site.Token)
       IN /\ env' = [url |-> site.BaseURL, tok |-> site.Token]
          /\ call'.ret = IF GOOS # "windows" /\ ~io.home THEN <<"home">> ELSE <<"nil">>
          /\ GOOS = "windows" =>
               /\ winenv'.url = IF io.setx1 THEN site.BaseURL ELSE winenv.url
               /\ winenv'.tok = IF io.setx2 THEN site.Token ELSE winenv.tok
          /\ (GOOS # "windows" /\ io.home) =>
               \A f \in RcFiles :
                 /\ (rc[f].exists /\ io.rcio[f] = "ok") =>
                      rc'[f].lines = rc[f].lines \o block
                 /\ (~rc[f].exists \/ io.rcio[f] = "open") => rc'[f] = rc[f]]_vars

(* A propagation has succeeded that could not open .bashrc and has         *)
(* appended to .zshrc.                                                     *)
C8_Witness ==
  /\ call.op = "SetEnvironmentVariables" /\ call.ret = <<"nil">>
  /\ GOOS # "windows"
  /\ rc[".bashrc"].exists /\ call.io.rcio[".bashrc"] = "open"
  /\ Blocks(rc[".bashrc"]) = 0
  /\ rc[".zshrc"].exists /\ Blocks(rc[".zshrc"]) = 1

(* C9 as stated: every successful propagation on Unix adds its export      *)
(* block to each startup file that exists, so that n propagations leave n  *)
(* blocks, and it creates no file.                                         *)
C9_EveryCallAppends ==
  [][(call'.op = "SetEnvironmentVariables" /\ call'.ret = <<"nil">> /\ GOOS # "windows") =>
       \A f \in RcFiles :
         /\ rc'[f].exists = rc[f].exists
         /\ rc'[f].lines = IF rc[f].exists
                           THEN rc[f].lines \o ExportLines(env'.url, env'.tok)
                           ELSE rc[f].lines]_vars

(* C9 as amended: a propagation creates no startup file and keeps what a   *)
(* file held as the beginning of what it holds.  It leaves a file as it    *)
(* was when it fails, when the file is missing or when the file cannot be  *)
(* opened, and it adds the export block of the named profile at the end    *)
(* when it succeeds on Unix and the file is opened and written.            *)
C9_AppendOnly ==
  [][call'.op = "SetEnvironmentVariables" =>
       \A f \in RcFiles :
         LET reached == /\ GOOS # "windows" /\ call'.ret = <<"nil">>
                        /\ rc[f].exists /\ call'.io.rcio[f] # "open"
         IN /\ rc'[f].exists = rc[f].exists
            /\ IsPrefix(rc[f].lines, rc'[f].lines)
            /\ ~reached => rc'[f] = rc[f]
            /\ (reached /\ call'.io.rcio[f] = "ok") =>
                 /\ Profile(cfg, call'.name) # << >>
                 /\ rc'[f].lines =
                      rc[f].lines \o ExportLines(Profile(cfg, call'.name)[1].BaseURL,
                                                 Profile(cfg, call'.name)[1].Token)]_vars

(* After successful propagations .bashrc holds its original content and    *)
(* the blocks of two different profiles in call order, and .zshrc, which   *)
(* could not be opened once, holds one block.                              *)
C9_Witness ==
  /\ call.op = "SetEnvironmentVariables" /\ call.ret = <<"nil">>
  /\ rc[".bashrc"].exists /\ rc[".zshrc"].exists
  /\ Blocks(rc[".bashrc"]) = 2 /\ Blocks(rc[".zshrc"]) = 1
  /\ Head(rc[".bashrc"].lines) = OrigLine
  /\ SubSeq(rc[".bashrc"].lines, 6, 9) = ExportLines(env.url, env.tok)
  /\ SubSeq(rc[".bashrc"].lines, 2, 5) # SubSeq(rc[".bashrc"].lines, 6, 9)

====
